---- MODULE Spec2Model ----
(***************************************************************************)
(* BakeBook / HeritageBakes: the client's offline store (offlineStorage),  *)
(* its outbox of queued recipe mutations and the processOutbox sync pass,  *)
(* run against the recipe routes of the server.                            *)
(*                                                                         *)
(* Encoding of identifiers                                                 *)
(*   outbox item id  `offline_${Date.now()}`  ->  <<"offline", now>>       *)
(*   temporary recipe id `temp_${uuidv4()}`   ->  a negative integer -k    *)
(*   server recipe id (a number, max + 1)     ->  a positive integer       *)
(* A recipe's title is the serial number of the form submission that made *)
(* it, so that a recipe can be followed from the form to the server (0 for *)
(* a recipe that the form itself got the server to store).                 *)
(***************************************************************************)
EXTENDS Integers, Sequences, FiniteSets, TLC

VARIABLES
    outboxSlot,     \* IndexedDB slot 'outbox': sequence of OutboxItem
    recipesSlot,    \* IndexedDB slot 'recipes': sequence of recipes
    tokenSlot,      \* IndexedDB slot 'token'
    online,         \* navigator.onLine
    now,            \* Date.now(), in milliseconds
    serverRecipes,  \* the server's stored recipes (recipes.json)
    enqueued,       \* number of addToOutbox calls made so far
    pass,           \* per invocation of processOutbox: its locals and position
    adds,           \* per open page: its call of saveOffline under way
    mutation,       \* the page's last useMutation: what it was, how it ended
    history,        \* of the requests of the outbox items: issued, accepted
    userSlot,       \* IndexedDB slot 'user'
    localToken,     \* localStorage item 'token'
    authUser,       \* AuthProvider's state `user`
    queries,        \* the query cache of the pages: per query key, its result
    lastRequest,    \* the request last observed, what it carried, how it ended
    serverNow,      \* the server's new Date()
    serverUsers     \* the server's registered accounts (users.json)

\* the session as the client holds it beside the token slot
sessionVars == <<userSlot, localToken, authUser>>
\* what the pages hold in memory
pageVars == <<queries, lastRequest>>

\* what the server holds beside the recipes
serverVars == <<serverNow, serverUsers>>
vars == <<outboxSlot, recipesSlot, tokenSlot, online, now, serverRecipes,
          enqueued, pass, adds, mutation, history, sessionVars, pageVars,
          serverVars>>

(***************************************************************************)
(* Bounds of the model.                                                    *)
(***************************************************************************)
MaxEnqueued == 2
MaxNow == 1
MaxServerId == 3
MaxCached == 2
MaxServerNow == 1
MaxStored == 2

\* the two places that start a pass (recipe-form, the effect at lines
\* 89-120): the mount of the form and the window's 'online' event
Procs == {"mount", "online"}
MainProc == "mount"

\* the pages of the application open in the browser: they share the
\* origin's store
Tabs == {"tab1", "tab2"}

\* the accounts of the server (users.json); a user is known by the name
Users == {"alice", "bob"}
MainUser == "alice"
NoUser == "<no user>"

NoToken == "<no token>"
\* server auth generateToken / jwt.verify: the token of a user, the user of
\* a token (NoUser when the token verifies for nobody)
TokenTable == [alice |-> "jwt-alice", bob |-> "jwt-bob"]
generateToken(u) == TokenTable[u]
verify(token) ==
    IF \E u \in Users : generateToken(u) = token
    THEN CHOOSE u \in Users : generateToken(u) = token
    ELSE NoUser
\* a token that was signed with another secret
ForgedToken == "jwt-forged"
TheToken == generateToken(MainUser)

\* the password each account was registered with (users.json)
PasswordTable == [alice |-> "pw-alice", bob |-> "pw-bob"]
Passwords == {PasswordTable[u] : u \in Users}

\* storage.validateUser: the user when the password is hers, null otherwise
validateUser(users, username, password) ==
    IF username \in users /\ PasswordTable[username] = password
    THEN username ELSE NoUser
\* error messages (Error.message); Undefined is the absent `error` field
Message(text, status) == [text |-> text, status |-> status]
Undefined == Message("<undefined>", 0)
NoTokenMessage == Message("No authentication token available", 0)
FailedToFetch == Message("Failed to fetch", 0)
ServerReturned(status) == Message("Server returned", status)
NoResponse == [kind |-> "none", status |-> 0, id |-> 0]

OpTypes == {"create", "update", "delete"}

(***************************************************************************)
(* Sequence helpers (Array.prototype.findIndex / filter).                  *)
(***************************************************************************)
Range(s) == {s[k] : k \in 1..Len(s)}

\* findIndex over ids: the first index whose element has the id, 0 for -1
FindIndex(s, id) ==
    IF \E k \in 1..Len(s) : s[k].id = id
    THEN CHOOSE k \in 1..Len(s) :
            /\ s[k].id = id
            /\ \A j \in 1..(k - 1) : s[j].id # id
    ELSE 0

(***************************************************************************)
(* offlineStorage: the outbox.                                             *)
(***************************************************************************)
OutboxId(t) == <<"offline", t>>

NewItem(type, data, t, n) ==
    [id |-> OutboxId(t), type |-> type, data |-> data, timestamp |-> t,
     status |-> "pending", error |-> Undefined, n |-> n]

\* an addToOutbox that appends to the list as stored at the time of the write
AppendItem_ToStored(outbox, item) == Append(outboxSlot, item)

\* an addToOutbox that puts the new item first
AppendItem_Prepend(outbox, item) == <<item>> \o outbox

\* addToOutbox, line 64: [...outbox, newItem]
AppendItem(outbox, item) == Append(outbox, item)

\* { ...item, ...updates }
Merge(item, updates) ==
    [f \in DOMAIN item |-> IF f \in DOMAIN updates THEN updates[f] ELSE item[f]]

\* an updateOutboxItem that does not look for the id
UpdatedOutbox_EveryItem(outbox, id, updates) ==
    [k \in 1..Len(outbox) |-> Merge(outbox[k], updates)]

\* updateOutboxItem, lines 73-77, on the list that was read
UpdatedOutbox(outbox, id, updates) ==
    LET index == FindIndex(outbox, id) IN
    IF index = 0 THEN outbox
    ELSE [outbox EXCEPT ![index] = Merge(@, updates)]

\* a removeFromOutbox whose filter keeps what it should drop
RemovedOutbox_KeepsMatch(outbox, id) ==
    SelectSeq(outbox, LAMBDA item : item.id = id)

\* removeFromOutbox, line 84
RemovedOutbox(outbox, id) == SelectSeq(outbox, LAMBDA item : item.id # id)

\* processOutbox, line 104
IsPending(item) == item.status = "pending"

\* a filter that takes the failed items up again
PendingItems_AlsoError(outbox) ==
    SelectSeq(outbox, LAMBDA item : item.status \in {"pending", "error"})

PendingItems(outbox) == SelectSeq(outbox, IsPending)

(***************************************************************************)
(* offlineStorage: the recipe cache.                                       *)
(***************************************************************************)
\* saveRecipe, lines 21-31
SavedRecipe(recipes, recipe) ==
    LET existingIndex == FindIndex(recipes, recipe.id) IN
    IF existingIndex > 0 THEN [recipes EXCEPT ![existingIndex] = recipe]
    ELSE Append(recipes, recipe)

\* a remapping that adds the server's recipe and leaves the temporary one
RemappedRecipes_KeepsTemporary(recipes, oldId, newId) ==
    LET recipeIndex == FindIndex(recipes, oldId) IN
    IF recipeIndex > 0
    THEN Append(recipes, [recipes[recipeIndex] EXCEPT !.id = newId])
    ELSE recipes

\* processOutbox, lines 149-157: rewrite the id of the cached recipe
RemappedRecipes(recipes, oldId, newId) ==
    LET recipeIndex == FindIndex(recipes, oldId) IN
    IF recipeIndex > 0 THEN [recipes EXCEPT ![recipeIndex].id = newId]
    ELSE recipes

(***************************************************************************)
(* The server's recipe storage and routes.                                 *)
(***************************************************************************)
SetMax(S) == CHOOSE x \in S : \A y \in S : y <= x

getNextRecipeId(recipes) ==
    IF Len(recipes) > 0 THEN SetMax({recipes[k].id : k \in 1..Len(recipes)}) + 1
    ELSE 1

\* storage.createRecipe, lines 459-475
createRecipe(recipes, recipe, userId, time) ==
    Append(recipes, [recipe EXCEPT !.id = getNextRecipeId(recipes),
                                   !.userId = userId,
                                   !.createdAt = time,
                                   !.updatedAt = time])

\* findIndex(recipe => recipe.id === id && recipe.userId === userId)
FindOwned(recipes, id, userId) ==
    IF \E k \in 1..Len(recipes) :
          recipes[k].id = id /\ recipes[k].userId = userId
    THEN CHOOSE k \in 1..Len(recipes) :
            /\ recipes[k].id = id /\ recipes[k].userId = userId
            /\ \A j \in 1..(k - 1) :
                  ~(recipes[j].id = id /\ recipes[j].userId = userId)
    ELSE 0

\* an updateRecipe that lets the updates overwrite the owner
updateRecipe_OwnerFromUpdates(recipes, id, updates, userId, time) ==
    LET index == FindOwned(recipes, id, userId) IN
    IF index = 0 THEN recipes
    ELSE [recipes EXCEPT ![index] =
            [Merge(recipes[index], updates) EXCEPT
                !.id = id, !.updatedAt = time]]

\* storage.updateRecipe, lines 477-498
updateRecipe(recipes, id, updates, userId, time) ==
    LET index == FindOwned(recipes, id, userId) IN
    IF index = 0 THEN recipes
    ELSE [recipes EXCEPT ![index] =
            [Merge(recipes[index], updates) EXCEPT
                !.id = id, !.userId = userId, !.updatedAt = time,
                !.createdAt = recipes[index].createdAt]]

\* storage.deleteRecipe, lines 500-511
deleteServerRecipe(recipes, id, userId) ==
    LET recipeIndex == FindOwned(recipes, id, userId) IN
    IF recipeIndex = 0 THEN recipes
    ELSE [k \in 1..(Len(recipes) - 1) |->
            IF k < recipeIndex THEN recipes[k] ELSE recipes[k + 1]]

\* a getRecipes that returns everybody's recipes
getRecipes_All(recipes, userId) == recipes

\* storage.getRecipes, lines 437-441
getRecipes(recipes, userId) ==
    IF userId = NoUser THEN <<>>
    ELSE SelectSeq(recipes, LAMBDA recipe : recipe.userId = userId)

\* storage.getRecipe(id, userId) finds the recipe, lines 443-457
Exists(recipes, id, userId) ==
    \E k \in 1..Len(recipes) :
       /\ recipes[k].id = id
       /\ ~(userId # NoUser /\ recipes[k].userId # userId)

\* auth authenticateToken, lines 161-243: the status it denies the request
\* with, 0 when it lets the request through
authenticateToken(users, token) ==
    IF token = NoToken THEN 401
    ELSE IF verify(token) = NoUser THEN 403
    ELSE IF verify(token) \notin users THEN 403
    ELSE 0

\* What the server does with a request and what it answers.  outcome is
\* "serve" (the route runs), "fail" (the route answers 500) or "throw"
\* (the request never reaches the server: fetch rejects).
ResponseTo(users, recipes, token, type, id, data, outcome) ==
    IF outcome = "throw" THEN [kind |-> "throw", status |-> 0, id |-> 0]
    ELSE IF authenticateToken(users, token) # 0
         THEN [kind |-> "http", status |-> authenticateToken(users, token),
               id |-> 0]
    ELSE IF outcome = "fail" THEN [kind |-> "http", status |-> 500, id |-> 0]
    ELSE IF type = "create"
         THEN [kind |-> "http", status |-> 201, id |-> getNextRecipeId(recipes)]
    ELSE IF ~Exists(recipes, id, verify(token))
         THEN [kind |-> "http", status |-> 404, id |-> 0]
    ELSE IF type = "update"
         THEN [kind |-> "http", status |-> 200, id |-> id]
    ELSE [kind |-> "http", status |-> 204, id |-> 0]

ServerAfter(users, recipes, token, type, id, data, outcome, time) ==
    IF outcome # "serve" \/ authenticateToken(users, token) # 0 THEN recipes
    ELSE IF type = "create"
         THEN createRecipe(recipes, data, verify(token), time)
    ELSE IF ~Exists(recipes, id, verify(token)) THEN recipes
    ELSE IF type = "delete"
         THEN deleteServerRecipe(recipes, id, verify(token))
    ELSE updateRecipe(recipes, id, data, verify(token), time)

\* Response.ok
Ok(response) == response.kind = "http" /\ response.status \in 200..299

(***************************************************************************)
(* One invocation of processOutbox: its locals and its position.  Every    *)
(* `await` of the function is a point where the invocation is suspended,   *)
(* so each step below runs from one await to the next.                     *)
(*   outbox, pendingItems, synced, errors, token: the locals of the code   *)
(*   onLine: what navigator.onLine answered at line 101                    *)
(*   i: the position of the for loop in pendingItems                       *)
(*   buf: the list an offlineStorage helper has read and not yet written   *)
(*   attempts: per item taken up so far, the answer to its request         *)
(*             (NoResponse when no request was issued for it)              *)
(***************************************************************************)
IdlePass ==
    [pc |-> "idle", onLine |-> FALSE, outbox |-> <<>>, pendingItems |-> <<>>, i |-> 0,
     synced |-> 0, errors |-> 0, token |-> NoToken, buf |-> <<>>,
     response |-> NoResponse, message |-> Undefined, attempts |-> <<>>]

Item(p) == pass[p].pendingItems[pass[p].i]

\* a page's saveOffline: where it is in addToOutbox, the recipe it queues,
\* the outbox it read
IdleAdd == [pc |-> "idle", n |-> 0, buf |-> <<>>, recipeData |-> Undefined]

\* the query keys of the pages: ['/api/recipes'] and ['/api/recipes', id]
QueryKeys == {"list", "detail"}

\* a query that has not run: no data, no error
NoQuery == [status |-> "pending", data |-> <<>>]

\* no request observed yet
NoRequest == [method |-> "none", id |-> 0, authorization |-> NoToken,
              response |-> NoResponse, body |-> <<>>, result |-> "none",
              message |-> Undefined]

\* useMutation before any mutate()
NoMutation == [type |-> "none", id |-> 0, request |-> "none", status |-> "idle"]

\* a loop that an item's failure ends
NextItem_AbortOnError(ps) ==
    IF ps.i < Len(ps.pendingItems) /\ ps.errors = 0
    THEN [ps EXCEPT !.i = @ + 1, !.pc = "markRead", !.buf = <<>>,
                    !.token = NoToken, !.response = NoResponse,
                    !.message = Undefined]
    ELSE [ps EXCEPT !.pc = "done", !.buf = <<>>, !.token = NoToken,
                    !.response = NoResponse, !.message = Undefined]

\* the `for (const item of pendingItems)` loop: the next item, or the return
NextItem(ps) ==
    IF ps.i < Len(ps.pendingItems)
    THEN [ps EXCEPT !.i = @ + 1, !.pc = "markRead", !.buf = <<>>,
                    !.token = NoToken, !.response = NoResponse,
                    !.message = Undefined]
    ELSE [ps EXCEPT !.pc = "done", !.buf = <<>>, !.token = NoToken,
                    !.response = NoResponse, !.message = Undefined]

\* a pass that does not look at navigator.onLine
ReturnsAtOnce_Never(onLine) == FALSE

\* line 101: if (!navigator.onLine) return { synced: 0, errors: 0 }
ReturnsAtOnce(onLine) == ~onLine

\* lines 101-109: the connectivity check, the read of the outbox, the filter
StartPass(p) ==
    /\ pass[p].pc = "idle"
    /\ getNextRecipeId(serverRecipes) + Len(PendingItems(outboxSlot))
          <= MaxServerId + 1
    /\ pass' = [pass EXCEPT ![p] =
          IF ReturnsAtOnce(online) THEN [IdlePass EXCEPT !.pc = "done"]
          ELSE LET pendingItems == PendingItems(outboxSlot) IN
               IF Len(pendingItems) = 0
               THEN [IdlePass EXCEPT !.pc = "done", !.onLine = TRUE,
                                     !.outbox = outboxSlot]
               ELSE [IdlePass EXCEPT !.pc = "markRead", !.i = 1,
                                     !.onLine = TRUE, !.outbox = outboxSlot,
                                     !.pendingItems = pendingItems]]
    /\ UNCHANGED <<outboxSlot, recipesSlot, tokenSlot, online, now,
                   serverRecipes, enqueued>>
    /\ UNCHANGED <<adds, mutation, history>>
    /\ UNCHANGED <<sessionVars, pageVars, serverVars>>

\* line 112, updateOutboxItem line 72: getOutbox
MarkRead(p) ==
    /\ pass[p].pc = "markRead"
    /\ pass' = [pass EXCEPT ![p].buf = outboxSlot, ![p].pc = "markWrite"]
    /\ UNCHANGED <<outboxSlot, recipesSlot, tokenSlot, online, now,
                   serverRecipes, enqueued>>
    /\ UNCHANGED <<adds, mutation, history>>
    /\ UNCHANGED <<sessionVars, pageVars, serverVars>>

\* line 112, updateOutboxItem lines 73-79: status 'syncing'
MarkWrite(p) ==
    /\ pass[p].pc = "markWrite"
    /\ outboxSlot' =
          IF FindIndex(pass[p].buf, Item(p).id) = 0 THEN outboxSlot
          ELSE UpdatedOutbox(pass[p].buf, Item(p).id, [status |-> "syncing"])
    /\ pass' = [pass EXCEPT ![p].buf = <<>>, ![p].pc = "getToken"]
    /\ UNCHANGED <<recipesSlot, tokenSlot, online, now, serverRecipes,
                   enqueued>>
    /\ UNCHANGED <<adds, mutation, history>>
    /\ UNCHANGED <<sessionVars, pageVars, serverVars>>

\* what an item's attempt is recorded as
Attempt(item, response) ==
    [n |-> item.n, type |-> item.type, id |-> item.data.id,
     response |-> response]

\* lines 116-118: without a token the item fails before any request
AfterGetToken(token) == IF token = NoToken THEN "errorRead" ELSE "fetch"

\* lines 115-118
GetToken(p) ==
    /\ pass[p].pc = "getToken"
    /\ pass' = [pass EXCEPT ![p] =
          IF AfterGetToken(tokenSlot) = "errorRead"
          THEN [@ EXCEPT !.message = NoTokenMessage, !.pc = "errorRead",
                         !.attempts = Append(@, Attempt(Item(p), NoResponse))]
          ELSE [@ EXCEPT !.token = tokenSlot, !.pc = "fetch"]]
    /\ UNCHANGED <<outboxSlot, recipesSlot, tokenSlot, online, now,
                   serverRecipes, enqueued>>
    /\ UNCHANGED <<adds, mutation, history>>
    /\ UNCHANGED <<sessionVars, pageVars, serverVars>>

\* the history after the request of the n-th item got the response
Recorded(h, n, response) ==
    [issued |-> h.issued \cup {n},
     accepted |-> IF Ok(response) THEN h.accepted \cup {n} ELSE h.accepted,
     replayed |-> IF Ok(response) /\ n \in h.accepted
                  THEN h.replayed \cup {n} ELSE h.replayed]

\* lines 130-138 and 163-169: the request is issued and the server, if the
\* request reaches it, handles it
Fetch(p, outcome) ==
    /\ pass[p].pc = "fetch"
    /\ LET item == Item(p)
           response == ResponseTo(serverUsers, serverRecipes, pass[p].token,
                                  item.type, item.data.id, item.data, outcome)
       IN /\ serverRecipes' =
                ServerAfter(serverUsers, serverRecipes, pass[p].token,
                            item.type, item.data.id, item.data, outcome,
                            serverNow)
          /\ pass' = [pass EXCEPT
                ![p].response = response,
                ![p].attempts = Append(@, Attempt(item, response)),
                ![p].pc = "response"]
          /\ history' = Recorded(history, item.n, response)
    /\ UNCHANGED <<outboxSlot, recipesSlot, tokenSlot, online, now, enqueued>>
    /\ UNCHANGED <<adds, mutation>>
    /\ UNCHANGED <<sessionVars, pageVars, serverVars>>

\* a dispatch that lets a rejected fetch pass for a delete's failure
AfterResponse_ThrowIgnored(item, response) ==
    IF response.kind = "throw" THEN "removeRead"
    ELSE IF item.type = "delete" THEN "removeRead"
    ELSE IF ~Ok(response) THEN "errorRead"
    ELSE IF item.type = "create" /\ response.id # item.data.id
         THEN "remapRead"
    ELSE "removeRead"

\* a dispatch that checks response.ok for a delete as well
AfterResponse_DeleteChecked(item, response) ==
    IF response.kind = "throw" THEN "errorRead"
    ELSE IF ~Ok(response) THEN "errorRead"
    ELSE IF item.type = "create" /\ response.id # item.data.id
         THEN "remapRead"
    ELSE "removeRead"

\* where the invocation goes once the answer is there: lines 140-147, 171
AfterResponse(item, response) ==
    IF response.kind = "throw" THEN "errorRead"
    ELSE IF item.type = "delete" THEN "removeRead"
    ELSE IF ~Ok(response) THEN "errorRead"
    ELSE IF item.type = "create" /\ response.id # item.data.id
         THEN "remapRead"
    ELSE "removeRead"

\* the message of the error thrown, lines 141 and 182
ThrownMessage(response) ==
    IF response.kind = "throw" THEN FailedToFetch
    ELSE ServerReturned(response.status)

Response(p) ==
    /\ pass[p].pc = "response"
    /\ LET to == AfterResponse(Item(p), pass[p].response) IN
       pass' = [pass EXCEPT
          ![p].pc = to,
          ![p].message = IF to = "errorRead"
                         THEN ThrownMessage(pass[p].response) ELSE @]
    /\ UNCHANGED <<outboxSlot, recipesSlot, tokenSlot, online, now,
                   serverRecipes, enqueued>>
    /\ UNCHANGED <<adds, mutation, history>>
    /\ UNCHANGED <<sessionVars, pageVars, serverVars>>

\* lines 149-151: getRecipes, findIndex
RemapRead(p) ==
    /\ pass[p].pc = "remapRead"
    /\ pass' = [pass EXCEPT ![p] =
          IF FindIndex(recipesSlot, Item(p).data.id) = 0
          THEN [@ EXCEPT !.pc = "removeRead"]
          ELSE [@ EXCEPT !.buf = recipesSlot, !.pc = "remapWrite"]]
    /\ UNCHANGED <<outboxSlot, recipesSlot, tokenSlot, online, now,
                   serverRecipes, enqueued>>
    /\ UNCHANGED <<adds, mutation, history>>
    /\ UNCHANGED <<sessionVars, pageVars, serverVars>>

\* lines 152-156: saveRecipes
RemapWrite(p) ==
    /\ pass[p].pc = "remapWrite"
    /\ recipesSlot' =
          RemappedRecipes(pass[p].buf, Item(p).data.id, pass[p].response.id)
    /\ pass' = [pass EXCEPT ![p].buf = <<>>, ![p].pc = "removeRead"]
    /\ UNCHANGED <<outboxSlot, tokenSlot, online, now, serverRecipes,
                   enqueued>>
    /\ UNCHANGED <<adds, mutation, history>>
    /\ UNCHANGED <<sessionVars, pageVars, serverVars>>

\* line 175, removeFromOutbox line 83: getOutbox
RemoveRead(p) ==
    /\ pass[p].pc = "removeRead"
    /\ pass' = [pass EXCEPT ![p].buf = outboxSlot, ![p].pc = "removeWrite"]
    /\ UNCHANGED <<outboxSlot, recipesSlot, tokenSlot, online, now,
                   serverRecipes, enqueued>>
    /\ UNCHANGED <<adds, mutation, history>>
    /\ UNCHANGED <<sessionVars, pageVars, serverVars>>

\* line 175-176, removeFromOutbox lines 84-85; synced++
RemoveWrite(p) ==
    /\ pass[p].pc = "removeWrite"
    /\ outboxSlot' = RemovedOutbox(pass[p].buf, Item(p).id)
    /\ pass' = [pass EXCEPT ![p] = NextItem([@ EXCEPT !.synced = @ + 1])]
    /\ UNCHANGED <<recipesSlot, tokenSlot, online, now, serverRecipes,
                   enqueued>>
    /\ UNCHANGED <<adds, mutation, history>>
    /\ UNCHANGED <<sessionVars, pageVars, serverVars>>

\* line 180, updateOutboxItem line 72: getOutbox
ErrorRead(p) ==
    /\ pass[p].pc = "errorRead"
    /\ pass' = [pass EXCEPT ![p].buf = outboxSlot, ![p].pc = "errorWrite"]
    /\ UNCHANGED <<outboxSlot, recipesSlot, tokenSlot, online, now,
                   serverRecipes, enqueued>>
    /\ UNCHANGED <<adds, mutation, history>>
    /\ UNCHANGED <<sessionVars, pageVars, serverVars>>

\* lines 180-184, updateOutboxItem lines 73-79; errors++
ErrorWrite(p) ==
    /\ pass[p].pc = "errorWrite"
    /\ outboxSlot' =
          IF FindIndex(pass[p].buf, Item(p).id) = 0 THEN outboxSlot
          ELSE UpdatedOutbox(pass[p].buf, Item(p).id,
                             [status |-> "error", error |-> pass[p].message])
    /\ pass' = [pass EXCEPT ![p] = NextItem([@ EXCEPT !.errors = @ + 1])]
    /\ UNCHANGED <<recipesSlot, tokenSlot, online, now, serverRecipes,
                   enqueued>>
    /\ UNCHANGED <<adds, mutation, history>>
    /\ UNCHANGED <<sessionVars, pageVars, serverVars>>

\* line 188: the caller (syncRecipes) takes { synced, errors }
Return(p) ==
    /\ pass[p].pc = "done"
    /\ pass' = [pass EXCEPT ![p] = IdlePass]
    /\ UNCHANGED <<outboxSlot, recipesSlot, tokenSlot, online, now,
                   serverRecipes, enqueued>>
    /\ UNCHANGED <<adds, mutation, history>>
    /\ UNCHANGED <<sessionVars, pageVars, serverVars>>

(***************************************************************************)
(* The rest of the client and the environment.                             *)
(***************************************************************************)
\* no invocation of processOutbox is under way
Quiet == \A p \in Procs : pass[p].pc = "idle"

\* Date.now() moves on
Tick ==
    /\ now < MaxNow
    /\ now' = now + 1
    /\ UNCHANGED <<outboxSlot, recipesSlot, tokenSlot, online, serverRecipes,
                   enqueued, pass>>
    /\ UNCHANGED <<adds, mutation, history>>
    /\ UNCHANGED <<sessionVars, pageVars, serverVars>>

GoOnline ==
    /\ ~online
    /\ online' = TRUE
    /\ UNCHANGED <<outboxSlot, recipesSlot, tokenSlot, now, serverRecipes,
                   enqueued, pass>>
    /\ UNCHANGED <<adds, mutation, history>>
    /\ UNCHANGED <<sessionVars, pageVars, serverVars>>

GoOffline ==
    /\ online
    /\ online' = FALSE
    /\ UNCHANGED <<outboxSlot, recipesSlot, tokenSlot, now, serverRecipes,
                   enqueued, pass>>
    /\ UNCHANGED <<adds, mutation, history>>
    /\ UNCHANGED <<sessionVars, pageVars, serverVars>>

\* what becomes of a page's request: it fails when the browser is offline
Fate(outcome) == IF online THEN outcome ELSE "throw"

\* POST /api/auth/login, routes/auth lines 91-131
LoginResponse(username, password, outcome) ==
    IF outcome = "throw" THEN [kind |-> "throw", status |-> 0, id |-> 0]
    ELSE IF outcome = "fail" THEN [kind |-> "http", status |-> 500, id |-> 0]
    ELSE IF validateUser(serverUsers, username, password) = NoUser
         THEN [kind |-> "http", status |-> 401, id |-> 0]
    ELSE [kind |-> "http", status |-> 200, id |-> 0]

\* an offline login that compares the submitted name with the cached user's
OfflineLogin_SameUser(username, cachedUser, cachedToken) ==
    IF cachedUser # NoUser /\ cachedToken # NoToken /\ username = cachedUser
    THEN cachedUser ELSE NoUser

\* auth-context login, lines 115-127: the user an offline login signs in
OfflineLogin(username, cachedUser, cachedToken) ==
    IF cachedUser # NoUser /\ cachedToken # NoToken
    THEN cachedUser ELSE NoUser

\* auth-context login(username, password), lines 89-135
LoginAttempt(username, password, outcome) ==
    /\ authUser = NoUser
    /\ LET response == LoginResponse(username, password, Fate(outcome))
           cached == OfflineLogin(username, userSlot, tokenSlot)
       IN  IF Ok(response)
           THEN /\ localToken' = generateToken(username)
                /\ tokenSlot' = generateToken(username)
                /\ userSlot' = username
                /\ authUser' = username
           ELSE IF ~online /\ cached # NoUser
           THEN /\ authUser' = cached
                /\ localToken' = tokenSlot
                /\ UNCHANGED <<tokenSlot, userSlot>>
           ELSE UNCHANGED <<tokenSlot, userSlot, localToken, authUser>>
    /\ UNCHANGED <<outboxSlot, recipesSlot, online, now, serverRecipes,
                   enqueued, pass>>
    /\ UNCHANGED <<adds, mutation, history>>
    /\ UNCHANGED <<pageVars, serverVars>>

\* auth-context checkAuth, lines 41-85, with GET /api/auth/me of routes/auth
\* lines 134-140, which finds no req.user and answers 401: the user the
\* page is signed in as once it has loaded
CheckAuth(stored, cachedUser, cachedToken) ==
    IF stored # NoToken /\ ~online
    THEN OfflineLogin(cachedUser, cachedUser, cachedToken)
    ELSE NoUser

\* the main user signs in with her password
Login == LoginAttempt(MainUser, PasswordTable[MainUser], "serve")

\* a logout that leaves the mirrored user in the store
Logout_KeepsUser ==
    /\ authUser # NoUser
    /\ localToken' = NoToken
    /\ tokenSlot' = NoToken
    /\ authUser' = NoUser
    /\ queries' = [key \in QueryKeys |-> NoQuery]
    /\ UNCHANGED <<outboxSlot, recipesSlot, online, now, serverRecipes,
                   enqueued, pass>>
    /\ UNCHANGED <<adds, mutation, history>>
    /\ UNCHANGED <<userSlot, lastRequest, serverVars>>

\* auth-context logout, lines 169-176: the token and the user go, the
\* recipe queries are removed; the outbox and the recipes stay
Logout ==
    /\ authUser # NoUser
    /\ localToken' = NoToken
    /\ tokenSlot' = NoToken
    /\ userSlot' = NoUser
    /\ authUser' = NoUser
    /\ queries' = [key \in QueryKeys |-> NoQuery]
    /\ UNCHANGED <<outboxSlot, recipesSlot, online, now, serverRecipes,
                   enqueued, pass>>
    /\ UNCHANGED <<adds, mutation, history>>
    /\ UNCHANGED <<lastRequest, serverVars>>

\* addToOutbox({ type, data }) for a recipe of the cache
AddToOutbox(type, data) ==
    /\ enqueued < MaxEnqueued
    /\ enqueued' = enqueued + 1
    /\ outboxSlot' =
          AppendItem(outboxSlot, NewItem(type, data, now, enqueued + 1))
    /\ UNCHANGED <<recipesSlot, tokenSlot, online, now, serverRecipes, pass>>
    /\ UNCHANGED <<adds, mutation, history>>
    /\ UNCHANGED <<sessionVars, pageVars, serverVars>>

\* recipe-form lines 140-164: the recipe of the form, under a temporary id
RecipeData(n, userId, time) ==
    [id |-> -n, title |-> n, userId |-> userId,
     createdAt |-> time, updatedAt |-> time]

\* queryClient.setQueryData(key, data)
SetQueryData(q, key, data) ==
    [q EXCEPT ![key] = [status |-> "success", data |-> data]]

\* recipe-form lines 177-178: the list saveOffline hands the query cache,
\* currentRecipes being the cache read after saveRecipe
OfflineList(currentRecipes, recipeData) ==
    Append(currentRecipes, recipeData)

\* recipe-form saveOffline: a new recipe under a temporary id goes to the
\* cache and a create goes to the outbox
SaveOffline ==
    /\ enqueued < MaxEnqueued
    /\ authUser # NoUser
    /\ LET recipeData == RecipeData(enqueued + 1, authUser, now) IN
          /\ recipesSlot' = SavedRecipe(recipesSlot, recipeData)
          /\ outboxSlot' = AppendItem(outboxSlot,
                NewItem("create", recipeData, now, enqueued + 1))
          /\ queries' = SetQueryData(queries, "list",
                OfflineList(recipesSlot', recipeData))
    /\ enqueued' = enqueued + 1
    /\ UNCHANGED <<tokenSlot, online, now, serverRecipes, pass>>
    /\ UNCHANGED <<adds, mutation, history>>
    /\ UNCHANGED <<sessionVars, lastRequest, serverVars>>

\* getQueryFn for ['/api/recipes'] answered by the server: saveRecipes(data)
FetchRecipes ==
    /\ online
    /\ localToken # NoToken
    /\ \/ recipesSlot # getRecipes(serverRecipes, verify(localToken))
       \/ queries["list"].data # getRecipes(serverRecipes, verify(localToken))
    /\ recipesSlot' = getRecipes(serverRecipes, verify(localToken))
    /\ queries' = SetQueryData(queries, "list",
                               getRecipes(serverRecipes, verify(localToken)))
    /\ UNCHANGED <<outboxSlot, tokenSlot, online, now, serverRecipes,
                   enqueued, pass>>
    /\ UNCHANGED <<adds, mutation, history>>
    /\ UNCHANGED <<sessionVars, lastRequest, serverVars>>

Outcomes == {"serve", "fail", "throw"}

PassStep(p) ==
    \/ StartPass(p)
    \/ MarkRead(p)
    \/ MarkWrite(p)
    \/ GetToken(p)
    \/ \E outcome \in Outcomes : Fetch(p, outcome)
    \/ Response(p)
    \/ RemapRead(p)
    \/ RemapWrite(p)
    \/ RemoveRead(p)
    \/ RemoveWrite(p)
    \/ ErrorRead(p)
    \/ ErrorWrite(p)
    \/ Return(p)

InitClient ==
    /\ outboxSlot = <<>>
    /\ recipesSlot = <<>>
    /\ tokenSlot = NoToken
    /\ online \in BOOLEAN
    /\ now = 0
    /\ serverRecipes = <<>>
    /\ enqueued = 0
    /\ pass = [p \in Procs |-> IdlePass]
    /\ adds = [t \in Tabs |-> IdleAdd]
    /\ mutation = NoMutation
    /\ history = [issued |-> {}, accepted |-> {}, replayed |-> {}]
    /\ userSlot = NoUser
    /\ localToken = NoToken
    /\ authUser = NoUser
    /\ queries = [key \in QueryKeys |-> NoQuery]
    /\ lastRequest = NoRequest
    /\ serverNow = 0

\* the accounts of the users exist
Init == InitClient /\ serverUsers = Users

(***************************************************************************)
(* Spec: one invocation of processOutbox at a time; the outbox and the     *)
(* recipe cache are written by the form and by the queries only between    *)
(* two invocations; the session (the token) changes at any time.           *)
(***************************************************************************)
Next ==
    \/ PassStep(MainProc)
    \/ Quiet /\ Tick
    \/ Quiet /\ GoOnline
    \/ Quiet /\ GoOffline
    \/ Login
    \/ Logout
    \/ Quiet /\ SaveOffline
    \/ Quiet /\ \E type \in OpTypes : \E data \in Range(recipesSlot) :
                   AddToOutbox(type, data)
    \/ Quiet /\ FetchRecipes

Spec == Init /\ [][Next]_vars

(***************************************************************************)
(* Vocabulary of the properties.                                           *)
(***************************************************************************)
Done(p) == pass[p].pc = "done"

\* the outbox holds the item of the n-th addToOutbox call
InOutbox(n) == \E k \in 1..Len(outboxSlot) : outboxSlot[k].n = n


\* the attempt threw inside the try block: no token, a rejected fetch, or a
\* create/update answered with a non-2xx status
Failed(a) ==
    \/ a.response.kind \in {"none", "throw"}
    \/ a.type # "delete" /\ ~Ok(a.response)

Succeeded(ps) == {k \in 1..Len(ps.attempts) : ~Failed(ps.attempts[k])}

\* C1: a pass that starts online on an outbox of pending items only, finds
\* a token for every item and gets a 2xx answer to every request, ends with
\* an empty outbox, synced = the number of items enqueued and errors = 0.
C1_AllAcceptedDrainsOutbox ==
    \A p \in Procs :
       LET ps == pass[p] IN
       ( /\ Done(p)
         /\ ps.onLine
         /\ ps.pendingItems = ps.outbox
         /\ Len(ps.attempts) = Len(ps.pendingItems)
         /\ \A k \in 1..Len(ps.attempts) : Ok(ps.attempts[k].response) )
       => /\ outboxSlot = <<>>
          /\ ps.synced = Len(ps.outbox)
          /\ ps.errors = 0

C1_Witness ==
    LET ps == pass[MainProc] IN
    /\ Done(MainProc)
    /\ ps.onLine
    /\ Len(ps.outbox) = 2
    /\ ps.pendingItems = ps.outbox
    /\ Len(ps.attempts) = 2
    /\ \A k \in 1..2 : Ok(ps.attempts[k].response)
    /\ ps.synced = 2
    /\ outboxSlot = <<>>

\* C2: an item that a pass left with status error is attempted again by the
\* next pass, and when that attempt is answered 2xx the item is counted in
\* synced, is gone from the outbox and (for a create) the recipe the server
\* returned is in the cache.
C2_ErrorItemRetried ==
    \A p \in Procs :
       LET ps == pass[p] IN
       (Done(p) /\ ps.onLine) =>
          \A k \in 1..Len(ps.outbox) :
             ps.outbox[k].status = "error" =>
                \E j \in 1..Len(ps.attempts) :
                   /\ ps.attempts[j].n = ps.outbox[k].n
                   /\ Ok(ps.attempts[j].response) =>
                         /\ ~InOutbox(ps.outbox[k].n)
                         /\ ps.synced >= 1
                         /\ ps.attempts[j].type = "create" =>
                               \E r \in 1..Len(recipesSlot) :
                                  recipesSlot[r].id = ps.attempts[j].response.id

(***************************************************************************)
(* LiveSpec: the conditions under which the outbox promises delivery.  The *)
(* user logs in, connectivity comes back and stays, recipes are saved      *)
(* through the form between two passes, syncRecipes keeps running passes   *)
(* and every step of a pass is eventually taken; a request that is sent    *)
(* again and again is eventually served.                                   *)
(***************************************************************************)
NextLive ==
    \/ PassStep(MainProc)
    \/ Login
    \/ GoOnline
    \/ Quiet /\ SaveOffline

LiveSpec ==
    /\ Init
    /\ [][NextLive]_vars
    /\ WF_vars(PassStep(MainProc))
    /\ WF_vars(Login)
    /\ WF_vars(GoOnline)
    /\ SF_vars(Fetch(MainProc, "serve"))

\* C3: every item placed in the outbox eventually leaves it, accepted by
\* the server.
C3_EventuallyDelivered ==
    \A n \in 1..MaxEnqueued : [](InOutbox(n) => <>(~InOutbox(n)))

\* the request of the attempt was issued and failed: fetch rejected, or a
\* create/update was answered with a non-2xx status
ApiFailed(a) == a.response.kind # "none" /\ Failed(a)

NonEmpty(message) == message # Undefined /\ message.text # ""

\* all outbox item ids are pairwise distinct
DistinctIds(outbox) ==
    \A j, k \in 1..Len(outbox) : outbox[j].id = outbox[k].id => j = k

\* C4: after a pass, every item whose request failed is still in the outbox
\* with status error and a non-empty error message, and the pass has counted
\* it in errors and not in synced.
C4_FailedItemKeptAsError ==
    \A p \in Procs :
       LET ps == pass[p] IN
       Done(p) =>
          /\ \A k \in 1..Len(ps.attempts) :
                ApiFailed(ps.attempts[k]) =>
                   \E j \in 1..Len(outboxSlot) :
                      /\ outboxSlot[j].n = ps.attempts[k].n
                      /\ outboxSlot[j].status = "error"
                      /\ NonEmpty(outboxSlot[j].error)
          /\ ps.synced = Cardinality(Succeeded(ps))
          /\ ps.errors = Len(ps.attempts) - Cardinality(Succeeded(ps))

\* C4 where no two items of the outbox the pass read share an id
C4_FailedItemKeptAsError_DistinctIds ==
    \A p \in Procs :
       LET ps == pass[p] IN
       (Done(p) /\ DistinctIds(ps.outbox)) =>
          /\ \A k \in 1..Len(ps.attempts) :
                ApiFailed(ps.attempts[k]) =>
                   \E j \in 1..Len(outboxSlot) :
                      /\ outboxSlot[j].n = ps.attempts[k].n
                      /\ outboxSlot[j].status = "error"
                      /\ NonEmpty(outboxSlot[j].error)
          /\ ps.synced = Cardinality(Succeeded(ps))
          /\ ps.errors = Len(ps.attempts) - Cardinality(Succeeded(ps))

\* the pass has finished the k-th item it took up
Finished(ps, k) == ps.pc = "done" \/ k < ps.i

\* C5: one item's failure does not end the pass: every item that was
\* pending when the pass read the outbox is attempted, in order, and
\* synced + errors is the number of those items.
C5_EveryPendingItemAttempted ==
    \A p \in Procs :
       LET ps == pass[p] IN
       Done(p) =>
          /\ ps.pendingItems =
                SelectSeq(ps.outbox, LAMBDA item : item.status = "pending")
          /\ Len(ps.attempts) = Len(ps.pendingItems)
          /\ \A k \in 1..Len(ps.attempts) :
                ps.attempts[k].n = ps.pendingItems[k].n
          /\ ps.synced + ps.errors = Len(ps.pendingItems)

C5_Witness ==
    LET ps == pass[MainProc] IN
    /\ Done(MainProc)
    /\ Len(ps.attempts) = 2
    /\ ApiFailed(ps.attempts[1])
    /\ Ok(ps.attempts[2].response)
    /\ ps.synced = 1
    /\ ps.errors = 1

\* a delete that the server answered with a non-2xx status
RejectedDelete(a) ==
    a.type = "delete" /\ a.response.kind = "http" /\ ~Ok(a.response)

\* C6: a queued delete answered with a non-2xx status is never marked error;
\* once the pass is through with it, it is gone from the outbox and counted
\* in synced.
C6_RejectedDeleteIsSynced ==
    \A p \in Procs :
       LET ps == pass[p] IN
       \A k \in 1..Len(ps.attempts) :
          RejectedDelete(ps.attempts[k]) =>
             /\ \A j \in 1..Len(outboxSlot) :
                   outboxSlot[j].n = ps.attempts[k].n =>
                      outboxSlot[j].status # "error"
             /\ Finished(ps, k) =>
                   /\ ~InOutbox(ps.attempts[k].n)
                   /\ ps.synced =
                         Cardinality({j \in Succeeded(ps) : Finished(ps, j)})

C6_Witness ==
    LET ps == pass[MainProc] IN
    /\ Done(MainProc)
    /\ \E k \in 1..Len(ps.attempts) :
          /\ RejectedDelete(ps.attempts[k])
          /\ ps.attempts[k].response.status = 404
          /\ ~InOutbox(ps.attempts[k].n)
    /\ ps.synced >= 1
    /\ ps.errors = 0

HasRecipe(recipes, id) == \E k \in 1..Len(recipes) : recipes[k].id = id

\* the pass holds a 2xx answer to a create whose id differs from the
\* temporary id of the queued recipe
Remappable(ps) ==
    /\ ps.pc \in {"response", "remapRead", "remapWrite", "removeRead",
                  "removeWrite"}
    /\ ps.pendingItems[ps.i].type = "create"
    /\ Ok(ps.response)
    /\ ps.response.id # ps.pendingItems[ps.i].data.id

\* the removal of the item from the outbox is next
AtRemoval(ps) == ps.pc \in {"removeRead", "removeWrite"}

C8_OneAtATimeInEnqueueOrder ==
    \A p \in Procs :
       LET ps == pass[p] IN
       ps.pc # "idle" =>
          /\ \A j, k \in 1..Len(ps.pendingItems) :
                j < k => ps.pendingItems[j].n < ps.pendingItems[k].n
          /\ \A k \in 1..Len(ps.attempts) :
                ps.attempts[k].n = ps.pendingItems[k].n
          /\ ps.pc = "fetch" =>
                /\ Len(ps.attempts) = ps.i - 1
                /\ ps.synced + ps.errors = ps.i - 1

C8_Witness ==
    LET ps == pass[MainProc] IN
    /\ ps.pc = "fetch"
    /\ ps.i = 2
    /\ ps.attempts[1].response.kind = "http"
    /\ ps.pendingItems[1].n = 1
    /\ ps.pendingItems[2].n = 2

\* C9: an item taken up while no token is stored is marked error with the
\* message "No authentication token available", no request is issued for
\* it, it is counted in errors, and the pass goes on to the next item.
C9_NoTokenItemMarkedError ==
    \A p \in Procs :
       LET ps == pass[p] IN
       \A k \in 1..Len(ps.attempts) :
          (ps.attempts[k].response.kind = "none" /\ Finished(ps, k)) =>
             /\ \E j \in 1..Len(outboxSlot) :
                   /\ outboxSlot[j].n = ps.attempts[k].n
                   /\ outboxSlot[j].status = "error"
                   /\ outboxSlot[j].error = NoTokenMessage
             /\ ps.errors >= 1
             /\ Done(p) => Len(ps.attempts) = Len(ps.pendingItems)

\* C9 where no two items of the outbox the pass read share an id
C9_NoTokenItemMarkedError_DistinctIds ==
    \A p \in Procs :
       LET ps == pass[p] IN
       \A k \in 1..Len(ps.attempts) :
          ( /\ ps.attempts[k].response.kind = "none"
            /\ Finished(ps, k)
            /\ DistinctIds(ps.outbox) ) =>
             /\ \E j \in 1..Len(outboxSlot) :
                   /\ outboxSlot[j].n = ps.attempts[k].n
                   /\ outboxSlot[j].status = "error"
                   /\ outboxSlot[j].error = NoTokenMessage
             /\ ps.errors >= 1
             /\ Done(p) => Len(ps.attempts) = Len(ps.pendingItems)

\* C10: a pass that starts while the outbox holds no pending item returns
\* { synced: 0, errors: 0 } at once: no request, outbox and cache untouched.
C10_NothingPendingNothingDone ==
    [][\A p \in Procs :
         ( /\ pass[p].pc = "idle"
           /\ pass'[p].pc # "idle"
           /\ \A k \in 1..Len(outboxSlot) : outboxSlot[k].status # "pending" )
         => /\ pass'[p].pc = "done"
            /\ pass'[p].synced = 0
            /\ pass'[p].errors = 0
            /\ pass'[p].attempts = <<>>
            /\ UNCHANGED <<outboxSlot, recipesSlot, serverRecipes>>
      ]_vars

C10_Witness ==
    LET ps == pass[MainProc] IN
    /\ Done(MainProc)
    /\ ps.onLine
    /\ ps.pendingItems = <<>>
    /\ Len(ps.outbox) > 0
    /\ outboxSlot = ps.outbox
    /\ ps.synced = 0
    /\ ps.errors = 0
    /\ ps.attempts = <<>>

\* C11: a pass that starts while navigator.onLine is false returns
\* { synced: 0, errors: 0 } at once: no request, and every outbox item
\* (status and error message included) as it was.
C11_OfflinePassTouchesNothing ==
    [][\A p \in Procs :
         (pass[p].pc = "idle" /\ pass'[p].pc # "idle" /\ ~online)
         => /\ pass'[p].pc = "done"
            /\ pass'[p].synced = 0
            /\ pass'[p].errors = 0
            /\ pass'[p].attempts = <<>>
            /\ UNCHANGED <<outboxSlot, recipesSlot, serverRecipes>>
      ]_vars

C11_Witness ==
    LET ps == pass[MainProc] IN
    /\ Done(MainProc)
    /\ ~ps.onLine
    /\ ~online
    /\ \E k \in 1..Len(outboxSlot) : outboxSlot[k].status = "pending"
    /\ \E k \in 1..Len(outboxSlot) : outboxSlot[k].status = "error"
    /\ ps.synced = 0
    /\ ps.errors = 0
    /\ ps.attempts = <<>>

\* the request of the attempt failed at the transport level
Thrown(a) == a.response.kind = "throw"

C15_OutboxIdsDistinct == DistinctIds(outboxSlot)

\* C16: updateOutboxItem(id, updates) changes the given fields only, on the
\* item with that id only (the first one), and keeps the order and every
\* other item; when no item has the id the stored outbox stays as it is.
\* The two calls of a pass: { status: 'syncing' } and { status: 'error',
\* error }.
C16_UpdateTouchesOneItem ==
    [][\A p \in Procs :
         LET ps == pass[p]
             qs == pass'[p]
             index == FindIndex(outboxSlot, ps.pendingItems[ps.i].id)
         IN  /\ (ps.pc = "markWrite" /\ qs.pc # "markWrite") =>
                   /\ Len(outboxSlot') = Len(outboxSlot)
                   /\ \A k \in 1..Len(outboxSlot) :
                         IF k = index
                         THEN outboxSlot'[k] =
                                 [outboxSlot[k] EXCEPT !.status = "syncing"]
                         ELSE outboxSlot'[k] = outboxSlot[k]
             /\ (ps.pc = "errorWrite" /\ qs.pc # "errorWrite") =>
                   /\ Len(outboxSlot') = Len(outboxSlot)
                   /\ \A k \in 1..Len(outboxSlot) :
                         IF k = index
                         THEN outboxSlot'[k] =
                                 [outboxSlot[k] EXCEPT !.status = "error",
                                                       !.error = ps.message]
                         ELSE outboxSlot'[k] = outboxSlot[k]
      ]_vars

\* the second item has been updated and the first, of another id, is as the
\* pass left it
C16_Witness ==
    LET ps == pass[MainProc] IN
    /\ ps.pc = "getToken"
    /\ ps.i = 2
    /\ Len(outboxSlot) = 2
    /\ outboxSlot[1].id # outboxSlot[2].id
    /\ outboxSlot[1].status = "error"
    /\ outboxSlot[1].error = ServerReturned(500)
    /\ outboxSlot[2].status = "syncing"
    /\ outboxSlot[2].error = Undefined

(***************************************************************************)
(* SpecReload: Spec, with pages that are reloaded or closed while an       *)
(* invocation of processOutbox is under way. The promise is abandoned      *)
(* where it stands; the store keeps what was written.                      *)
(***************************************************************************)
LoadPage ==
    /\ pass' = [p \in Procs |-> IdlePass]
    /\ adds' = [t \in Tabs |-> IdleAdd]
    /\ mutation' = NoMutation
    /\ queries' = [key \in QueryKeys |-> NoQuery]
    /\ authUser' = CheckAuth(localToken, userSlot, tokenSlot)
    /\ localToken' = IF CheckAuth(localToken, userSlot, tokenSlot) = NoUser
                     THEN NoToken ELSE tokenSlot
    /\ UNCHANGED <<outboxSlot, recipesSlot, tokenSlot, online, now,
                   serverRecipes, enqueued, history>>
    /\ UNCHANGED <<userSlot, lastRequest, serverVars>>

\* the page is reloaded while a pass is under way
Reload == ~Quiet /\ LoadPage

NextReload ==
    \/ Next
    \/ Reload

SpecReload == Init /\ [][NextReload]_vars

\* C13: an item that an abandoned pass left with status syncing is taken up
\* by the pass that runs after the next load: once a pass that started
\* online has returned, each item it found with status syncing has been
\* attempted by it.
C13_AbandonedItemRetried ==
    \A p \in Procs :
       LET ps == pass[p] IN
       (Done(p) /\ ps.onLine) =>
          \A k \in 1..Len(ps.outbox) :
             ps.outbox[k].status = "syncing" =>
                \E j \in 1..Len(ps.attempts) :
                   ps.attempts[j].n = ps.outbox[k].n

(***************************************************************************)
(* SpecWriters: the saveOffline calls of two pages and one invocation of   *)
(* processOutbox run interleaved: every await of an outbox helper is a     *)
(* point where another writer of the outbox may run.                       *)
(***************************************************************************)
\* the saveOffline calls under way
InFlight == {t \in Tabs : adds[t].pc # "idle"}

\* the recipe of the n-th submission of the form, lines 147-163

\* saveOffline line 168: saveRecipe(recipeData)
SaveRecipeStep(t) ==
    /\ adds[t].pc = "idle"
    /\ authUser # NoUser
    /\ enqueued + Cardinality(InFlight) < MaxEnqueued
    /\ LET n == enqueued + Cardinality(InFlight) + 1 IN
          /\ recipesSlot' = SavedRecipe(recipesSlot,
                                        RecipeData(n, authUser, now))
          /\ adds' = [adds EXCEPT ![t] =
                [pc |-> "addRead", n |-> n, buf |-> <<>>,
                 recipeData |-> RecipeData(n, authUser, now)]]
    /\ UNCHANGED <<outboxSlot, tokenSlot, online, now, serverRecipes,
                   enqueued, pass, mutation, history>>
    /\ UNCHANGED <<sessionVars, pageVars, serverVars>>

\* saveOffline line 171, addToOutbox line 56: getOutbox
AddRead(t) ==
    /\ adds[t].pc = "addRead"
    /\ adds' = [adds EXCEPT ![t].buf = outboxSlot, ![t].pc = "addWrite"]
    /\ UNCHANGED <<outboxSlot, recipesSlot, tokenSlot, online, now,
                   serverRecipes, enqueued, pass, mutation, history>>
    /\ UNCHANGED <<sessionVars, pageVars, serverVars>>

\* addToOutbox lines 57-65: the new item, the write of the whole list; then
\* lines 177-178 of saveOffline
AddWrite(t) ==
    /\ adds[t].pc = "addWrite"
    /\ outboxSlot' = AppendItem(adds[t].buf,
          NewItem("create", adds[t].recipeData, now, adds[t].n))
    /\ enqueued' = enqueued + 1
    /\ adds' = [adds EXCEPT ![t] = IdleAdd]
    /\ queries' = SetQueryData(queries, "list",
                               OfflineList(recipesSlot, adds[t].recipeData))
    /\ UNCHANGED <<recipesSlot, tokenSlot, online, now, serverRecipes, pass,
                   mutation, history>>
    /\ UNCHANGED <<sessionVars, lastRequest, serverVars>>

NextWriters ==
    \/ PassStep(MainProc)
    \/ \E t \in Tabs : SaveRecipeStep(t)
    \/ \E t \in Tabs : AddRead(t)
    \/ \E t \in Tabs : AddWrite(t)
    \/ Tick
    \/ Login
    \/ GoOnline

SpecWriters == Init /\ [][NextWriters]_vars

(***************************************************************************)
(* SpecPasses: the two invocations of processOutbox that the form starts   *)
(* (at its mount and on the 'online' event) run interleaved; nothing locks *)
(* one out while the other is under way.                                   *)
(***************************************************************************)
NextPasses ==
    \/ \E p \in Procs : PassStep(p)
    \/ Quiet /\ Tick
    \/ Quiet /\ GoOnline
    \/ Login
    \/ Quiet /\ SaveOffline

SpecPasses == Init /\ [][NextPasses]_vars

\* C14: under any interleaving of two invocations of processOutbox the
\* server accepts the request of an outbox item at most once.
C14_NoItemAcceptedTwice == history.replayed = {}

\* the serial numbers of the items of a list
Ns(outbox) == {outbox[k].n : k \in 1..Len(outbox)}

\* the addToOutbox call of the n-th submission has returned
Completed(n) ==
    /\ n \in 1..(enqueued + Cardinality(InFlight))
    /\ \A t \in Tabs : adds[t].n # n

\* C19: every outbox write stores the whole list as its writer read it
\* (plus the writer's own new item): whatever another writer stored between
\* the read and the write is gone after it (last write wins), so that an
\* enqueue interleaved with another writer can lose an item whose enqueue
\* completed and that was never dispatched.
C19_LastOutboxWriteWins ==
    [][outboxSlot' # outboxSlot =>
         \/ \E t \in Tabs :
               /\ adds[t].pc = "addWrite" /\ adds'[t].pc = "idle"
               /\ Ns(outboxSlot') = Ns(adds[t].buf) \cup {adds[t].n}
               /\ \A k \in 1..Len(outboxSlot) :
                     outboxSlot[k].n \notin Ns(adds[t].buf) =>
                        outboxSlot[k] \notin Range(outboxSlot')
         \/ \E p \in Procs :
               /\ pass[p].pc \in {"markWrite", "errorWrite", "removeWrite"}
               /\ pass'[p].pc # pass[p].pc
               /\ Ns(outboxSlot') \subseteq Ns(pass[p].buf)
               /\ \A k \in 1..Len(outboxSlot) :
                     outboxSlot[k].n \notin Ns(pass[p].buf) =>
                        outboxSlot[k] \notin Range(outboxSlot')
      ]_vars

\* no writer is under way, no request was ever issued, and an item whose
\* addToOutbox returned is not in the stored outbox
C19_Witness ==
    /\ Quiet
    /\ InFlight = {}
    /\ history.issued = {}
    /\ \E n \in 1..enqueued : Completed(n) /\ ~InOutbox(n)

(***************************************************************************)
(* SpecCache: the form's create (offline and online), the recipe-list      *)
(* query, the session, clearOfflineData and processOutbox, one at a time.  *)
(* SpecClient: the same and the detail page's delete.                      *)
(***************************************************************************)
\* what a useMutation call was and how it ended; request tells what became
\* of its own request: "none" (not sent), "ok" or "failed"
Mutation(type, id, request, status) ==
    [type |-> type, id |-> id, request |-> request, status |-> status]

\* recipe-form lines 241-246: the temporary recipe out, the server's in
ReplacedRecipes(recipes, tempId, result) ==
    Append(SelectSeq(recipes, LAMBDA r : r.id # tempId), result)

\* recipe-form createRecipeMutation.mutationFn, lines 135-255
CreateRecipe(outcome) ==
    /\ authUser # NoUser
    /\ LET isOffline == ~online
           sent == ~isOffline /\ outcome = "serve"
       IN  IF sent
           THEN LET recipeData ==
                       [RecipeData(enqueued + 1, authUser, now) EXCEPT
                           !.title = 0]
                    result == [recipeData EXCEPT
                                  !.id = getNextRecipeId(serverRecipes),
                                  !.userId = verify(localToken),
                                  !.createdAt = serverNow,
                                  !.updatedAt = serverNow]
                IN  /\ getNextRecipeId(serverRecipes) <= MaxServerId
                    /\ Len(recipesSlot) < MaxCached
                    /\ serverRecipes' =
                          ServerAfter(serverUsers, serverRecipes, localToken,
                                      "create", recipeData.id, recipeData,
                                      "serve", serverNow)
                    /\ recipesSlot' =
                          ReplacedRecipes(recipesSlot, recipeData.id, result)
                    /\ mutation' = Mutation("create", result.id, "ok", "success")
                    /\ UNCHANGED <<outboxSlot, enqueued, queries>>
           ELSE LET recipeData == RecipeData(enqueued + 1, authUser, now) IN
                    /\ enqueued < MaxEnqueued
                    /\ recipesSlot' = SavedRecipe(recipesSlot, recipeData)
                    /\ outboxSlot' = AppendItem(outboxSlot,
                          NewItem("create", recipeData, now, enqueued + 1))
                    /\ enqueued' = enqueued + 1
                    /\ queries' = SetQueryData(queries, "list",
                          OfflineList(recipesSlot', recipeData))
                    /\ mutation' = Mutation("create", recipeData.id,
                          IF isOffline THEN "none" ELSE "failed", "success")
                    /\ UNCHANGED serverRecipes
    /\ UNCHANGED <<tokenSlot, online, now, pass, adds, history>>
    /\ UNCHANGED <<sessionVars, lastRequest, serverVars>>

\* RecipeDetail deleteRecipeMutation, part_002 lines 25-42, through
\* apiRequest: a rejected fetch or a non-2xx answer ends in onError
DeleteRecipe(id, outcome) ==
    /\ authUser # NoUser
    /\ LET response ==
              ResponseTo(serverUsers, serverRecipes, localToken, "delete",
                         id, [id |-> id], Fate(outcome))
       IN  /\ serverRecipes' =
                 ServerAfter(serverUsers, serverRecipes, localToken, "delete",
                             id, [id |-> id], Fate(outcome), serverNow)
           /\ mutation' = IF Ok(response)
                          THEN Mutation("delete", id, "ok", "success")
                          ELSE Mutation("delete", id,
                                  IF online THEN "failed" ELSE "none", "error")
    /\ UNCHANGED <<outboxSlot, recipesSlot, tokenSlot, online, now, enqueued,
                   pass, adds, history>>
    /\ UNCHANGED <<sessionVars, pageVars, serverVars>>

\* offlineStorage clearOfflineData, lines 90-97: the recipes stay
ClearOfflineData ==
    /\ tokenSlot # NoToken \/ outboxSlot # <<>>
    /\ tokenSlot' = NoToken
    /\ userSlot' = NoUser
    /\ outboxSlot' = <<>>
    /\ UNCHANGED <<recipesSlot, online, now, serverRecipes, enqueued, pass,
                   adds, mutation, history>>
    /\ UNCHANGED <<localToken, authUser, pageVars, serverVars>>

NextCache ==
    \/ PassStep(MainProc)
    \/ Quiet /\ Tick
    \/ Quiet /\ GoOnline
    \/ Quiet /\ GoOffline
    \/ Login
    \/ Logout
    \/ Quiet /\ \E outcome \in Outcomes : CreateRecipe(outcome)
    \/ Quiet /\ FetchRecipes
    \/ Quiet /\ ClearOfflineData

SpecCache == Init /\ [][NextCache]_vars

NextClient ==
    \/ NextCache
    \/ Quiet /\ \E k \in 1..Len(serverRecipes) : \E outcome \in Outcomes :
                   DeleteRecipe(serverRecipes[k].id, outcome)

SpecClient == Init /\ [][NextClient]_vars

\* C17: each recipe of the local cache is confirmed by the server or has
\* an outbox item (pending, syncing or error) that carries it.
C17_CachedRecipeConfirmedOrQueued ==
    \A k \in 1..Len(recipesSlot) :
       \/ Exists(serverRecipes, recipesSlot[k].id, NoUser)
       \/ \E j \in 1..Len(outboxSlot) :
             /\ outboxSlot[j].data.id = recipesSlot[k].id
             /\ outboxSlot[j].status \in {"pending", "syncing", "error"}

\* C18: a mutation of any kind that is attempted while offline, or whose
\* own request fails, appends an outbox item of its kind for its recipe.
C18_FailedMutationQueued ==
    [][(mutation' # mutation /\ mutation'.type \in OpTypes
           /\ mutation'.request # "ok")
         => /\ Len(outboxSlot') = Len(outboxSlot) + 1
            /\ outboxSlot'[Len(outboxSlot')].type = mutation'.type
            /\ outboxSlot'[Len(outboxSlot')].data.id = mutation'.id
            /\ outboxSlot'[Len(outboxSlot')].status = "pending"
      ]_vars

(***************************************************************************)
(* SpecStoreFail: Spec, with a local store whose operations may reject     *)
(* (IndexedDB unavailable, quota exceeded).  The helpers of offlineStorage *)
(* have no catch: the rejection goes to the caller's await.                *)
(***************************************************************************)
StoreError == Message("The operation failed", 0)

\* the awaits of processOutbox on the store that are inside the try block
\* (lines 112, 115, 150, 156, 175) and those of the catch block (line 180)
TryStoreSteps ==
    {"markRead", "markWrite", "getToken", "remapRead", "remapWrite",
     "removeRead", "removeWrite"}
CatchStoreSteps == {"errorRead", "errorWrite"}

\* line 103: getOutbox rejects before the try block is entered
StartFails(p) ==
    /\ pass[p].pc = "idle"
    /\ ~ReturnsAtOnce(online)
    /\ pass' = [pass EXCEPT ![p] =
          [IdlePass EXCEPT !.pc = "rejected", !.onLine = TRUE]]
    /\ UNCHANGED <<outboxSlot, recipesSlot, tokenSlot, online, now,
                   serverRecipes, enqueued, adds, mutation, history>>
    /\ UNCHANGED <<sessionVars, pageVars, serverVars>>

\* a store operation of the item under way rejects: inside the try block
\* the catch at line 178 takes it, inside the catch block nothing does
StoreFails(p) ==
    /\ pass[p].pc \in TryStoreSteps \cup CatchStoreSteps
    /\ pass' = [pass EXCEPT ![p] =
          IF pass[p].pc \in TryStoreSteps
          THEN [@ EXCEPT !.pc = "errorRead", !.buf = <<>>,
                         !.message = StoreError]
          ELSE [@ EXCEPT !.pc = "rejected", !.buf = <<>>]]
    /\ UNCHANGED <<outboxSlot, recipesSlot, tokenSlot, online, now,
                   serverRecipes, enqueued, adds, mutation, history>>
    /\ UNCHANGED <<sessionVars, pageVars, serverVars>>

\* recipe-form syncRecipes, lines 78-85: the rejection is caught and shown
Rejected(p) ==
    /\ pass[p].pc = "rejected"
    /\ pass' = [pass EXCEPT ![p] = IdlePass]
    /\ UNCHANGED <<outboxSlot, recipesSlot, tokenSlot, online, now,
                   serverRecipes, enqueued, adds, mutation, history>>
    /\ UNCHANGED <<sessionVars, pageVars, serverVars>>

NextStoreFail ==
    \/ Next
    \/ StartFails(MainProc)
    \/ StoreFails(MainProc)
    \/ Rejected(MainProc)

SpecStoreFail == Init /\ [][NextStoreFail]_vars

\* C20: a rejecting store operation is not propagated: no invocation of
\* processOutbox ends by rejecting, it returns its { synced, errors }.
C20_PassNeverRejects == \A p \in Procs : pass[p].pc # "rejected"

\* C26: once a queued create has been synced and its recipe remapped, every
\* update or delete of the same recipe that was enqueued after it is sent
\* to the id the server assigned, never to the temporary id.
C26_LaterMutationUsesServerId ==
    \A p \in Procs :
       LET ps == pass[p] IN
       \A j \in 1..Len(ps.attempts) : \A k \in 1..Len(ps.attempts) :
          (/\ j < k
           /\ ps.attempts[j].type = "create"
           /\ Ok(ps.attempts[j].response)
           /\ ps.attempts[k].type \in {"update", "delete"}
           /\ ps.attempts[k].response.kind # "none"
           /\ ps.pendingItems[k].data.title = ps.pendingItems[j].data.title)
          => ps.attempts[k].id = ps.attempts[j].response.id

(***************************************************************************)
(* Several users on one device: anybody may try to sign in, with any       *)
(* password and whatever the network does; the signed-in user saves        *)
(* recipes offline and signs out; the pass of the page runs.               *)
(***************************************************************************)
NextSession ==
    \/ PassStep(MainProc)
    \/ Quiet /\ GoOnline
    \/ Quiet /\ GoOffline
    \/ \E username \in Users : \E password \in Passwords :
          \E outcome \in Outcomes : LoginAttempt(username, password, outcome)
    \/ Logout
    \/ Quiet /\ SaveOffline
    \/ Quiet /\ LoadPage

SpecSession == Init /\ [][NextSession]_vars

\* C21: when logout has completed, the user slot and the token slot of the
\* local store and the localStorage token are all absent, so that an
\* offline login, or the offline auth check of a reloaded page, by anybody
\* finds no cached credentials to sign in with.
C21_LogoutClearsSession ==
    [][Logout =>
          /\ userSlot' = NoUser
          /\ tokenSlot' = NoToken
          /\ localToken' = NoToken
          /\ \A username \in Users :
                OfflineLogin(username, userSlot', tokenSlot') = NoUser
          /\ OfflineLogin(userSlot', userSlot', tokenSlot') = NoUser]_vars

\* somebody who had saved a recipe offline has signed out, offline
C21_Witness ==
    /\ authUser = NoUser
    /\ userSlot = NoUser
    /\ tokenSlot = NoToken
    /\ localToken = NoToken
    /\ ~online
    /\ outboxSlot # <<>>

\* C29: a login authenticates only verified credentials: the page ends
\* signed in as a user only if the server accepted the submitted username
\* and password for that user; an offline login does not sign in a
\* submission that differs from the cached user's.
C29_LoginOnlyVerified ==
    [][\A username \in Users : \A password \in Passwords :
         \A outcome \in Outcomes :
            (LoginAttempt(username, password, outcome) /\ authUser' # NoUser)
            => /\ authUser' = validateUser(serverUsers, username, password)
               /\ Ok(LoginResponse(username, password, Fate(outcome)))]_vars

(***************************************************************************)
(* SpecServer: the server alone.  Accounts are registered, the clock       *)
(* advances, and requests arrive at the recipe routes with any token a     *)
(* client can hold (none, a forged one, a registered user's), any id and   *)
(* any body.  lastRequest holds the last request and its answer.           *)
(***************************************************************************)
Tokens(users) == {NoToken, ForgedToken} \cup {generateToken(u) : u \in users}
Ids == 1..MaxStored
\* the title of the requests' recipes, and the texts searched for
Titles == {1}
Queries == {1, 2}

\* the bodies of POST and PUT: a title and, as a client may send them, an
\* id, an owner and dates of its own (no stored recipe has id 9 or date 7)
Bodies ==
    {[id |-> 9, title |-> title, userId |-> userId,
      createdAt |-> 7, updatedAt |-> 7] :
        title \in Titles, userId \in Users}

Request(method, id, token, response, body) ==
    [NoRequest EXCEPT !.method = method, !.id = id, !.authorization = token,
                      !.response = response, !.body = body]

Http(status) == [kind |-> "http", status |-> status, id |-> 0]

\* storage.searchRecipes, lines 513-537: of the user's recipes, those whose
\* text holds the query (the text of a recipe of the model is its title)
searchRecipes(recipes, query, userId) ==
    SelectSeq(getRecipes(recipes, userId), LAMBDA recipe : recipe.title = query)

\* storage.getRecipesByTags, lines 539-566 (the title stands for the tags)
getRecipesByTags(recipes, tags, userId) ==
    IF tags = {} THEN <<>>
    ELSE SelectSeq(getRecipes(recipes, userId),
                   LAMBDA recipe : recipe.title \in tags)

\* routes/auth register, lines 23-89
RouteRegister(username) ==
    /\ serverUsers' = serverUsers \cup {username}
    /\ lastRequest' = Request("register", 0, NoToken,
          IF username \in serverUsers THEN Http(400) ELSE Http(201), <<>>)
    /\ UNCHANGED <<outboxSlot, recipesSlot, tokenSlot, online, now,
                   serverRecipes, enqueued, pass, adds, mutation, history>>
    /\ UNCHANGED <<sessionVars, queries, serverNow>>

\* new Date() of the server moves on
ServerTick ==
    /\ serverNow < MaxServerNow
    /\ serverNow' = serverNow + 1
    /\ UNCHANGED <<outboxSlot, recipesSlot, tokenSlot, online, now,
                   serverRecipes, enqueued, pass, adds, mutation, history>>
    /\ UNCHANGED <<sessionVars, pageVars, serverUsers>>

\* a route that answers and stores nothing
Answers(request) ==
    /\ lastRequest' = request
    /\ UNCHANGED <<outboxSlot, recipesSlot, tokenSlot, online, now,
                   serverRecipes, enqueued, pass, adds, mutation, history>>
    /\ UNCHANGED <<sessionVars, queries, serverVars>>

\* app.get("/api/recipes", authenticateToken, ...), lines 746-760
ListAnswer(users, recipes, token) ==
    LET denied == authenticateToken(users, token) IN
    IF denied # 0
    THEN Request("list", 0, token, Http(denied), <<>>)
    ELSE Request("list", 0, token, Http(200),
                 getRecipes(recipes, verify(token)))

RouteList(token) == Answers(ListAnswer(serverUsers, serverRecipes, token))

\* app.get("/api/recipes/:id", authenticateToken, ...), lines 763-782
GetAnswer(users, recipes, token, id) ==
    LET denied == authenticateToken(users, token) IN
    IF denied # 0
    THEN Request("get", id, token, Http(denied), <<>>)
    ELSE IF ~Exists(recipes, id, verify(token))
    THEN Request("get", id, token, Http(404), <<>>)
    ELSE Request("get", id, token, Http(200),
                 SelectSeq(recipes, LAMBDA recipe : recipe.id = id))

RouteGet(token, id) ==
    Answers(GetAnswer(serverUsers, serverRecipes, token, id))

\* app.get("/api/recipes/search/:query", ...), lines 914-922: no
\* authenticateToken before the handler, no userId for the storage
RouteSearch(token, query) ==
    Answers(Request("search", 0, token, Http(200),
                    searchRecipes(serverRecipes, query, NoUser)))

\* app.post("/api/recipes/filter", ...), lines 925-938: likewise
RouteFilter(token, tags) ==
    Answers(Request("filter", 0, token, Http(200),
                    getRecipesByTags(serverRecipes, tags, NoUser)))

\* app.post / app.put / app.delete of "/api/recipes", lines 785-911
RouteWrite(type, token, id, body) ==
    /\ type = "create" => getNextRecipeId(serverRecipes) <= MaxStored
    /\ LET response == ResponseTo(serverUsers, serverRecipes, token, type,
                                  id, body, "serve")
       IN  /\ serverRecipes' = ServerAfter(serverUsers, serverRecipes, token,
                                           type, id, body, "serve", serverNow)
           /\ lastRequest' = Request(type, id, token, response, <<>>)
    /\ UNCHANGED <<outboxSlot, recipesSlot, tokenSlot, online, now, enqueued,
                   pass, adds, mutation, history>>
    /\ UNCHANGED <<sessionVars, queries, serverVars>>

\* nobody has registered yet; the server is reachable
InitServer == InitClient /\ online /\ serverUsers = {}

NextServer ==
    \/ \E username \in Users : RouteRegister(username)
    \/ ServerTick
    \/ \E token \in Tokens(serverUsers) :
          \/ RouteList(token)
          \/ \E id \in Ids : RouteGet(token, id)
          \/ \E query \in Queries : RouteSearch(token, query)
          \/ \E tags \in SUBSET Queries : RouteFilter(token, tags)
          \/ \E body \in Bodies : RouteWrite("create", token, 0, body)
          \/ \E id \in Ids : \E body \in Bodies :
                RouteWrite("update", token, id, body)
          \/ \E id \in Ids : RouteWrite("delete", token, id, <<>>)

SpecServer == InitServer /\ [][NextServer]_vars

\* the token passed authenticateToken
Authenticated(token) == authenticateToken(serverUsers, token) = 0

\* C24: whatever was registered, created, updated and deleted before, the
\* list route answers an authenticated user with exactly the stored recipes
\* whose userId is the user's, and with no recipe of another user.
C24_ListReturnsOwnRecipes ==
    [][(/\ lastRequest'.method = "list"
        /\ lastRequest' # lastRequest
        /\ Authenticated(lastRequest'.authorization))
         => LET body == lastRequest'.body
                token == lastRequest'.authorization IN
            /\ lastRequest'.response.status = 200
            /\ \A k \in 1..Len(serverRecipes) :
                  serverRecipes[k].userId = verify(token)
                  <=> \E j \in 1..Len(body) : body[j] = serverRecipes[k]
            /\ \A j \in 1..Len(body) :
                  /\ body[j].userId = verify(token)
                  /\ \E k \in 1..Len(serverRecipes) :
                        serverRecipes[k] = body[j]
                  /\ \A i \in 1..Len(body) : i # j => body[i] # body[j]]_vars

\* a user who owns some of the stored recipes and not all has listed hers
C24_Witness ==
    /\ lastRequest.method = "list"
    /\ lastRequest.response.status = 200
    /\ lastRequest.body # <<>>
    /\ Len(lastRequest.body) < Len(serverRecipes)
    /\ \E k \in 1..Len(serverRecipes) :
          serverRecipes[k].updatedAt > serverRecipes[k].createdAt

RecipeRoutes ==
    {"list", "get", "create", "update", "delete", "search", "filter"}

\* C25: a request to a recipe route (list, get, create, update, delete,
\* search, filter) that carries no token is answered 401 and leaves the
\* stored recipes as they were.
C25_NoTokenDenied ==
    [][(/\ lastRequest' # lastRequest
        /\ lastRequest'.method \in RecipeRoutes
        /\ lastRequest'.authorization = NoToken)
       => /\ lastRequest'.response.status = 401
          /\ serverRecipes' = serverRecipes]_vars

\* C30: the id, the userId and the createdAt of a stored recipe never
\* change, and a PUT or DELETE of a recipe by a user who does not own it is
\* answered 404 and leaves the stored recipes as they were, whatever the
\* body of the request carries.
C30_OwnerAndCreationKept ==
    [][/\ \A k \in 1..Len(serverRecipes) : \A j \in 1..Len(serverRecipes') :
            serverRecipes'[j].id = serverRecipes[k].id
            => /\ serverRecipes'[j].userId = serverRecipes[k].userId
               /\ serverRecipes'[j].createdAt = serverRecipes[k].createdAt
       /\ (/\ lastRequest'.method \in {"update", "delete"}
            /\ \/ lastRequest' # lastRequest
               \/ serverRecipes' # serverRecipes
            /\ Authenticated(lastRequest'.authorization)
            /\ \E k \in 1..Len(serverRecipes) :
                  /\ serverRecipes[k].id = lastRequest'.id
                  /\ serverRecipes[k].userId #
                        verify(lastRequest'.authorization))
          => /\ lastRequest'.response.status = 404
             /\ serverRecipes' = serverRecipes]_vars

\* a user was refused the update or the delete of another user's recipe,
\* and some recipe has been updated by its owner since it was created
C30_Witness ==
    /\ lastRequest.method \in {"update", "delete"}
    /\ lastRequest.response.status = 404
    /\ verify(lastRequest.authorization) \in serverUsers
    /\ \E k \in 1..Len(serverRecipes) :
          /\ serverRecipes[k].id = lastRequest.id
          /\ serverRecipes[k].userId # verify(lastRequest.authorization)
    /\ \E k \in 1..Len(serverRecipes) :
          serverRecipes[k].updatedAt > serverRecipes[k].createdAt

\* C27: a queued mutation reaches the server only with the token of the user
\* who enqueued it: no request of a pass carries another user's token, so a
\* recipe queued by one user is never created under another's account.
C27_SentAsEnqueuer ==
    \A p \in Procs :
       (pass[p].pc = "response" /\ pass[p].response.kind = "http")
       => verify(pass[p].token) = Item(p).data.userId

\* how many recipes of the list have the id
Copies(recipes, id) == Cardinality({k \in 1..Len(recipes) : recipes[k].id = id})

\* C28: when saveOffline has run, the recipe cache and the recipe list of
\* the query cache each hold the new recipe, under its temporary id,
\* exactly once, and the outbox has gained exactly one item, a pending
\* create whose payload is that recipe.
C28_SavedOnceEverywhere ==
    [][SaveOffline =>
          LET recipeData == RecipeData(enqueued + 1, authUser, now) IN
          /\ Copies(recipesSlot', recipeData.id) = 1
          /\ Copies(queries'["list"].data, recipeData.id) = 1
          /\ Len(outboxSlot') = Len(outboxSlot) + 1
          /\ SubSeq(outboxSlot', 1, Len(outboxSlot)) = outboxSlot
          /\ outboxSlot'[Len(outboxSlot')].type = "create"
          /\ outboxSlot'[Len(outboxSlot')].status = "pending"
          /\ outboxSlot'[Len(outboxSlot')].data = recipeData]_vars

(***************************************************************************)
(* SpecPages: the reads of the pages.  apiRequest and the query functions  *)
(* are applied to every answer a request can get; the user signs in and    *)
(* out, saves recipes offline, and the pass delivers them.                 *)
(***************************************************************************)
\* queryClient apiRequest, lines 41-43: `Bearer ${token}` when a token is
\* stored in localStorage, no Authorization header otherwise
AuthorizationHeader(stored) ==
    IF stored # NoToken THEN <<"Bearer", stored>> ELSE <<>>

\* auth authenticateToken, line 168: authHeader && authHeader.split(' ')[1]
TokenOf(authHeader) ==
    IF Len(authHeader) >= 2 THEN authHeader[2] ELSE NoToken

\* a Response as fetch resolves it: with the text of its body and its
\* status text
Answer(response, text) ==
    [kind |-> response.kind, status |-> response.status, id |-> response.id,
     text |-> text, statusText |-> "status text"]

\* the bodies of the server's answers: JSON, but for 204
ServerText(response) == IF response.status = 204 THEN "" ELSE "json"

\* fetch rejects
Rejects == Answer([kind |-> "throw", status |-> 0, id |-> 0], "")

\* the answers a request of the page can get from the server, from a proxy
\* or from nobody
Statuses == {200, 204, 304, 400, 401, 403, 404, 500}
ApiAnswers ==
    {Answer(Http(status), text) : status \in Statuses, text \in {"", "json"}}
    \cup {Rejects}

\* a throwIfResNotOk that lets the client errors through
throwIfResNotOk_ServerErrorsOnly(res) ==
    IF res.status >= 500
    THEN [thrown |-> TRUE,
          message |-> Message(IF res.text # "" THEN res.text
                              ELSE res.statusText, res.status)]
    ELSE [thrown |-> FALSE, message |-> Undefined]

\* queryClient throwIfResNotOk, lines 4-9
throwIfResNotOk(res) ==
    IF ~Ok(res)
    THEN [thrown |-> TRUE,
          message |-> Message(IF res.text # "" THEN res.text
                              ELSE res.statusText, res.status)]
    ELSE [thrown |-> FALSE, message |-> Undefined]

\* queryClient apiRequest, lines 22-56: what it sent and how it ended, res
\* being what fetch did
apiRequest(method, id, stored, res) ==
    [method |-> method, id |-> id,
     authorization |-> TokenOf(AuthorizationHeader(stored)),
     response |-> [kind |-> res.kind, status |-> res.status, id |-> res.id],
     body |-> <<>>,
     result |-> IF res.kind = "throw" \/ throwIfResNotOk(res).thrown
                THEN "thrown" ELSE "returned",
     message |-> IF res.kind = "throw" THEN FailedToFetch
                 ELSE throwIfResNotOk(res).message]

\* a call of apiRequest by a page, with whatever answer
ApiRequest(method, res) ==
    /\ online \/ res = Rejects
    /\ lastRequest' = apiRequest(method, 0, localToken, res)
    /\ UNCHANGED <<outboxSlot, recipesSlot, tokenSlot, online, now,
                   serverRecipes, enqueued, pass, adds, mutation, history>>
    /\ UNCHANGED <<sessionVars, queries, serverVars>>

\* what fetch does with the request the server would answer with `served`
Fetched(served, outcome) ==
    IF outcome = "throw" THEN Rejects
    ELSE IF outcome = "fail" /\ Ok(served.response)
    THEN Answer(Http(500), "json")
    ELSE Answer(served.response, ServerText(served.response))

\* the query ends in the error state; it keeps the data it had
QueryError(q, key) == [q EXCEPT ![key].status = "error"]

\* a useQuery whose queryFn is apiRequest('GET', ...) then response.json()
PageQuery(key, served, outcome) ==
    LET call == apiRequest("GET", served.id, localToken,
                           Fetched(served, Fate(outcome)))
    IN  /\ lastRequest' = [call EXCEPT !.body =
              IF call.result = "returned" THEN served.body ELSE <<>>]
        /\ queries' = IF call.result = "returned"
                      THEN SetQueryData(queries, key, served.body)
                      ELSE QueryError(queries, key)
        /\ UNCHANGED <<outboxSlot, recipesSlot, tokenSlot, online, now,
                       serverRecipes, enqueued, pass, adds, mutation, history>>
        /\ UNCHANGED <<sessionVars, serverVars>>

\* home and cookbook, useQuery(["/api/recipes"]), home lines 16-22
HomeQuery(outcome) ==
    /\ authUser # NoUser
    /\ PageQuery("list",
                 ListAnswer(serverUsers, serverRecipes,
                            TokenOf(AuthorizationHeader(localToken))),
                 outcome)

\* RecipeDetail, useQuery(["/api/recipes", id]), part_002 lines 17-23
DetailQuery(id, outcome) ==
    /\ authUser # NoUser
    /\ PageQuery("detail",
                 GetAnswer(serverUsers, serverRecipes,
                           TokenOf(AuthorizationHeader(localToken)), id),
                 outcome)

\* navbar, useQuery(["/api/recipes"]) with the default queryFn,
\* getQueryFn({ on401: "throw" }), queryClient lines 59-125
DefaultQuery(outcome) ==
    /\ authUser # NoUser
    /\ LET isOffline == ~online
           served == ListAnswer(serverUsers, serverRecipes,
                                TokenOf(AuthorizationHeader(localToken)))
           res == Fetched(served, Fate(outcome))
       IN  IF isOffline
           THEN /\ queries' = SetQueryData(queries, "list", recipesSlot)
                /\ UNCHANGED recipesSlot
           ELSE IF res.kind = "throw" \/ throwIfResNotOk(res).thrown
           THEN /\ queries' = QueryError(queries, "list")
                /\ UNCHANGED recipesSlot
           ELSE /\ recipesSlot' = served.body
                /\ queries' = SetQueryData(queries, "list", served.body)
    /\ UNCHANGED <<outboxSlot, tokenSlot, online, now, serverRecipes,
                   enqueued, pass, adds, mutation, history>>
    /\ UNCHANGED <<sessionVars, lastRequest, serverVars>>

NextPages ==
    \/ PassStep(MainProc)
    \/ Quiet /\ GoOnline
    \/ Quiet /\ GoOffline
    \/ Login
    \/ Logout
    \/ Quiet /\ SaveOffline
    \/ Quiet /\ \E outcome \in Outcomes : HomeQuery(outcome)
    \/ Quiet /\ \E recipe \in Range(recipesSlot) \cup Range(serverRecipes) :
                   \E outcome \in Outcomes : DetailQuery(recipe.id, outcome)
    \/ Quiet /\ \E outcome \in Outcomes : DefaultQuery(outcome)

SpecPages == Init /\ [][NextPages]_vars

\* SpecApi: apiRequest under every session and every answer
NextApi ==
    \/ GoOnline
    \/ GoOffline
    \/ \E username \in Users : \E outcome \in Outcomes :
          LoginAttempt(username, PasswordTable[username], outcome)
    \/ Logout
    \/ \E method \in {"GET", "POST", "DELETE"} :
          \E res \in ApiAnswers : ApiRequest(method, res)

SpecApi == Init /\ [][NextApi]_vars

\* C23: apiRequest never returns a response that is not 2xx: such a
\* response becomes a thrown error that carries its status and the text of
\* its body; and the request carries the stored token as its bearer token
\* whenever one is stored.
C23_NonOkThrown ==
    [][\A method \in {"GET", "POST", "DELETE"} : \A res \in ApiAnswers :
          ApiRequest(method, res)
          => /\ lastRequest'.result = "returned" => res.status \in 200..299
             /\ (res.kind = "http" /\ res.status \notin 200..299)
                => /\ lastRequest'.result = "thrown"
                   /\ lastRequest'.message.status = res.status
                   /\ res.text # "" => lastRequest'.message.text = res.text
             /\ localToken # NoToken
                => lastRequest'.authorization = localToken]_vars

\* a signed-in page's request was answered 404 with a body, and threw
C23_Witness ==
    /\ lastRequest.method = "DELETE"
    /\ lastRequest.authorization = generateToken(MainUser)
    /\ lastRequest.response.status = 404
    /\ lastRequest.result = "thrown"
    /\ lastRequest.message = Message("json", 404)


\* C22: a recipe read of the UI (the recipe list, a recipe's detail) whose
\* request fails while the browser is offline gives its caller the cached
\* recipes instead of an error.
C22_OfflineReadServesCache ==
    [][\A outcome \in Outcomes :
          /\ (/\ ~online
              /\ recipesSlot # <<>>
              /\ HomeQuery(outcome) \/ DefaultQuery(outcome))
             => queries'["list"] = [status |-> "success", data |-> recipesSlot]
          /\ \A id \in (1..MaxServerId) \cup {-n : n \in 1..MaxEnqueued} :
                (/\ ~online
                 /\ \E k \in 1..Len(recipesSlot) : recipesSlot[k].id = id
                 /\ DetailQuery(id, outcome))
                => /\ queries'["detail"].status = "success"
                   /\ queries'["detail"].data =
                         SelectSeq(recipesSlot, LAMBDA recipe : recipe.id = id)
      ]_vars

====
